---- MODULE Spec2Model ----
(***************************************************************************)
(* A model of src/src/pipeline.ts: the stream pipeline that reads numbers  *)
(* from stdin and drives each through a list of building blocks.           *)
(*                                                                         *)
(* Objects keep their identity.  A PipelineElement is an entry of `elems`  *)
(* (its id is its index), a JavaScript array of elements is an entry of    *)
(* `arrs`, and an element whose value is an array holds a reference to it, *)
(* so that two references to one array are visible as such.                *)
(***************************************************************************)
EXTENDS Integers, Sequences, FiniteSets, TLC

VARIABLES
    functions,    \* the block list handed to stdinSource / runBuildingBlocks
    elems,        \* heap of PipelineElement objects: elems[id].value
    arrs,         \* heap of PipelineElement[] arrays: arrs[a] is a sequence of element ids
    eventBuffer,  \* eventBuffer[i]: the array the closure of window block i refers to
    stdout,       \* everything written to process.stdout, in order
    element,      \* the element the last run was started with (0 before any run)
    trace,        \* history: every block invocation made so far
    nEvents,      \* history: number of runs started so far
    input,        \* history: the lines read so far
    nFaults,      \* history: number of block invocations that raised
    script,       \* lines still to be read when the input is scripted
    flat          \* the results of getFlatValues called on element directly

vars == <<functions, elems, arrs, eventBuffer, stdout, element, trace,
          nEvents, input, nFaults, script, flat>>

(***************************************************************************)
(* Bounds of the model.                                                    *)
(***************************************************************************)
MaxLines == 6
MaxRuns == 4
MaxFaults == 2
MaxNodes == 5
MaxApplies == 2

Null == 0

(***************************************************************************)
(* JavaScript numbers.  A finite double is a dyadic rational n / 2^e; the  *)
(* model keeps it exactly, normalised (e = 0 or n odd).  NaN and undefined *)
(* are values of their own.  Magnitudes stay far below 2^53, so no         *)
(* rounding occurs; -0 is not distinguished from 0.                        *)
(***************************************************************************)
NaN == [k |-> "NaN", n |-> 0, e |-> 0]
Undefined == [k |-> "undefined", n |-> 0, e |-> 0]

RECURSIVE Pow2(_)
Pow2(e) == IF e = 0 THEN 1 ELSE 2 * Pow2(e - 1)

RECURSIVE Pow5(_)
Pow5(e) == IF e = 0 THEN 1 ELSE 5 * Pow5(e - 1)

RECURSIVE Dyadic(_, _)
Dyadic(n, e) ==
    IF e > 0 /\ n % 2 = 0 THEN Dyadic(n \div 2, e - 1)
    ELSE [k |-> "number", n |-> n, e |-> e]

Num(i) == Dyadic(i, 0)

IsFinite(x) == x.k = "number"

Max(a, b) == IF a >= b THEN a ELSE b

\* x + y
Plus(x, y) ==
    IF ~IsFinite(x) \/ ~IsFinite(y) THEN NaN
    ELSE LET e == Max(x.e, y.e)
         IN  Dyadic(x.n * Pow2(e - x.e) + y.n * Pow2(e - y.e), e)

\* 0.5 * x
HalfOf(x) == IF ~IsFinite(x) THEN NaN ELSE Dyadic(x.n, x.e + 1)

\* x - y < 0, for finite x and y
Less(x, y) == x.n * Pow2(y.e) < y.n * Pow2(x.e)

\* isNaN(x)
isNaN(x) == x.k # "number"

(***************************************************************************)
(* Number.prototype.toString (radix 10) for the numbers above.             *)
(***************************************************************************)
DigitChar == <<"0", "1", "2", "3", "4", "5", "6", "7", "8", "9">>

RECURSIVE NatToString(_)
NatToString(n) ==
    IF n < 10 THEN DigitChar[n + 1]
    ELSE NatToString(n \div 10) \o DigitChar[(n % 10) + 1]

\* the decimal digits of f, left-padded with zeros to width w
RECURSIVE FractionDigits(_, _)
FractionDigits(f, w) ==
    IF w = 0 THEN ""
    ELSE FractionDigits(f \div 10, w - 1) \o DigitChar[(f % 10) + 1]

NumberToString(x) ==
    IF x.k = "NaN" THEN "NaN"
    ELSE IF x.k = "undefined" THEN "undefined"
    ELSE LET a == IF x.n < 0 THEN 0 - x.n ELSE x.n
             sign == IF x.n < 0 THEN "-" ELSE ""
             whole == a \div Pow2(x.e)
             frac == (a % Pow2(x.e)) * Pow5(x.e)
         IN  IF x.e = 0 THEN sign \o NatToString(whole)
             ELSE sign \o NatToString(whole) \o "." \o FractionDigits(frac, x.e)

(***************************************************************************)
(* Number(line).  A line is a sequence of characters.  The model covers    *)
(* the lines made of digits, signs, blanks and letters: blanks are trimmed,*)
(* the empty string is 0, an optionally signed run of digits is that       *)
(* integer and anything else is NaN.                                       *)
(***************************************************************************)
Digits == {"0", "1", "2", "3", "4", "5", "6", "7", "8", "9"}

DigitValue(c) == CHOOSE d \in 0..9 : DigitChar[d + 1] = c

RECURSIVE TrimStart(_)
TrimStart(s) == IF s # <<>> /\ Head(s) = " " THEN TrimStart(Tail(s)) ELSE s

RECURSIVE TrimEnd(_)
TrimEnd(s) ==
    IF s # <<>> /\ s[Len(s)] = " " THEN TrimEnd(SubSeq(s, 1, Len(s) - 1)) ELSE s

RECURSIVE DigitsToNat(_)
DigitsToNat(s) ==
    IF s = <<>> THEN 0
    ELSE 10 * DigitsToNat(SubSeq(s, 1, Len(s) - 1)) + DigitValue(s[Len(s)])

AllDigits(s) == s # <<>> /\ \A i \in 1..Len(s) : s[i] \in Digits

Number(line) ==
    LET t == TrimEnd(TrimStart(line))
    IN  IF t = <<>> THEN Num(0)
        ELSE IF Head(t) = "-" /\ AllDigits(Tail(t)) THEN Num(0 - DigitsToNat(Tail(t)))
        ELSE IF Head(t) = "+" /\ AllDigits(Tail(t)) THEN Num(DigitsToNat(Tail(t)))
        ELSE IF AllDigits(t) THEN Num(DigitsToNat(t))
        ELSE NaN

(***************************************************************************)
(* The heap.  A machine state m is the record of the mutable parts that    *)
(* block code can touch: m.elems, m.arrs, m.eventBuffer and m.stdout.      *)
(* An element's value is a number or a reference to an array.              *)
(***************************************************************************)
ArrayRef(a) == [k |-> "array", a |-> a]

\* Array.isArray(value)
IsArray(value) == value.k = "array"

\* new PipelineElement(value): the new object is the last entry of elems
PipelineElement(m, value) == [m EXCEPT !.elems = Append(@, [value |-> value])]

\* a fresh empty array literal []: the new array is the last entry of arrs
NewArray(m) == [m EXCEPT !.arrs = Append(@, <<>>)]

\* console.log(text)
consoleLog(m, text) == [m EXCEPT !.stdout = Append(@, text)]

\* the items of the array an element refers to
ItemsOf(m, id) == m.arrs[m.elems[id].value.a]

(***************************************************************************)
(* PipelineElement.getFlatValues                                           *)
(***************************************************************************)
RECURSIVE getFlatValues(_, _), pushFlatValues(_, _, _)
getFlatValues(m, id) ==
    IF ~IsArray(m.elems[id].value) THEN <<m.elems[id].value>>
    ELSE pushFlatValues(m, ItemsOf(m, id), <<>>)

\* pushFlatValues putting the values of an item in front of the earlier ones
pushFlatValuesInFront(m, items, flatValues) ==
    IF items = <<>> THEN flatValues
    ELSE pushFlatValues(m, Tail(items), getFlatValues(m, Head(items)) \o flatValues)

\* the forEach of getFlatValues: flatValues.push(...element.getFlatValues())
pushFlatValues(m, items, flatValues) ==
    IF items = <<>> THEN flatValues
    ELSE pushFlatValues(m, Tail(items), flatValues \o getFlatValues(m, Head(items)))

(***************************************************************************)
(* filter                                                                  *)
(***************************************************************************)
\* the predicates the model passes to filter: "positive" is (i) => i > 0 and
\* "below2" is (i) => i < 2
\* Holds with "positive" taken as (i) => i >= 0
HoldsNonNegative(predicate, v) ==
    CASE predicate = "positive" -> ~Less(v, Num(0))
      [] predicate = "below2"   -> Less(v, Num(2))

Holds(predicate, v) ==
    CASE predicate = "positive" -> Less(Num(0), v)
      [] predicate = "below2"   -> Less(v, Num(2))

RECURSIVE doesPassFilter(_, _, _, _), reduceFilter(_, _, _, _, _)
\* doesPassFilter with the disjunction started from true, like the conjunction
doesPassFilterOrFromTrue(m, id, predicate, arrayLogicalBehavior) ==
    IF ~IsArray(m.elems[id].value) THEN Holds(predicate, m.elems[id].value)
    ELSE reduceFilter(m, ItemsOf(m, id), predicate, arrayLogicalBehavior, TRUE)

doesPassFilter(m, id, predicate, arrayLogicalBehavior) ==
    IF ~IsArray(m.elems[id].value) THEN Holds(predicate, m.elems[id].value)
    ELSE IF arrayLogicalBehavior = "AND"
         THEN reduceFilter(m, ItemsOf(m, id), predicate, arrayLogicalBehavior, TRUE)
         ELSE reduceFilter(m, ItemsOf(m, id), predicate, arrayLogicalBehavior, FALSE)

reduceFilter(m, items, predicate, arrayLogicalBehavior, aggregator) ==
    IF items = <<>> THEN aggregator
    ELSE reduceFilter(m, Tail(items), predicate, arrayLogicalBehavior,
             IF arrayLogicalBehavior = "AND"
             THEN aggregator /\ doesPassFilter(m, Head(items), predicate, arrayLogicalBehavior)
             ELSE aggregator \/ doesPassFilter(m, Head(items), predicate, arrayLogicalBehavior))

\* filterApply returning a new element with the same value instead of the
\* element it was given
filterApplyCopy(m, block, el) ==
    IF doesPassFilter(m, el, block.predicate, block.arrayLogicalBehavior)
    THEN [m |-> PipelineElement(m, m.elems[el].value), ret |-> Len(m.elems) + 1]
    ELSE [m |-> m, ret |-> Null]

\* the block filter(predicate, arrayLogicalBehavior) applied to element el
filterApply(m, block, el) ==
    [m |-> m,
     ret |-> IF doesPassFilter(m, el, block.predicate, block.arrayLogicalBehavior)
             THEN el ELSE Null]

(***************************************************************************)
(* fixedEventWindow(size); i is the position of the block instance, whose  *)
(* closure variable is m.eventBuffer[i].                                   *)
(***************************************************************************)
\* windowReset without the reset: the buffer is never cleared
windowResetNever(m, i, size) == m

\* windowReset with > for ==: the buffer is cleared one call late
windowResetLate(m, i, size) ==
    IF Len(m.arrs[m.eventBuffer[i]]) > size
    THEN [NewArray(m) EXCEPT !.eventBuffer[i] = Len(m.arrs) + 1]
    ELSE m

\* windowReset clearing the array in place (eventBuffer.length = 0)
windowResetInPlace(m, i, size) ==
    IF Len(m.arrs[m.eventBuffer[i]]) = size
    THEN [m EXCEPT !.arrs[m.eventBuffer[i]] = <<>>]
    ELSE m

\* windowReset with >= for ==: the buffer is cleared whenever it is full or over
windowResetAtLeast(m, i, size) ==
    IF Len(m.arrs[m.eventBuffer[i]]) >= size
    THEN [NewArray(m) EXCEPT !.eventBuffer[i] = Len(m.arrs) + 1]
    ELSE m

\* if (eventBuffer.length == size) eventBuffer = [];
windowReset(m, i, size) ==
    IF Len(m.arrs[m.eventBuffer[i]]) = size
    THEN [NewArray(m) EXCEPT !.eventBuffer[i] = Len(m.arrs) + 1]
    ELSE m

\* eventBuffer.push(element);
windowPush(m, i, el) == [m EXCEPT !.arrs[m.eventBuffer[i]] = Append(@, el)]

\* return (eventBuffer.length == size) ? new PipelineElement(eventBuffer) : null;
windowReturn(m, i, size) ==
    IF Len(m.arrs[m.eventBuffer[i]]) = size
    THEN [m |-> PipelineElement(m, ArrayRef(m.eventBuffer[i])), ret |-> Len(m.elems) + 1]
    ELSE [m |-> m, ret |-> Null]

fixedEventWindowApply(m, i, size, el) ==
    windowReturn(windowPush(windowReset(m, i, size), i, el), i, size)

(***************************************************************************)
(* foldSum                                                                 *)
(***************************************************************************)
RECURSIVE getSumOfValues(_, _), reduceSum(_, _, _)
\* getSumOfValues adding the immediate Scalar items only
getSumOfValuesShallow(m, id) ==
    IF ~IsArray(m.elems[id].value) THEN m.elems[id].value
    ELSE reduceSum(m, SelectSeq(ItemsOf(m, id),
                                LAMBDA x : ~IsArray(m.elems[x].value)), Num(0))

getSumOfValues(m, id) ==
    IF ~IsArray(m.elems[id].value) THEN m.elems[id].value
    ELSE reduceSum(m, ItemsOf(m, id), Num(0))

reduceSum(m, items, aggregator) ==
    IF items = <<>> THEN aggregator
    ELSE reduceSum(m, Tail(items), Plus(aggregator, getSumOfValues(m, Head(items))))

foldSumApply(m, el) ==
    [m |-> PipelineElement(m, getSumOfValues(m, el)), ret |-> Len(m.elems) + 1]

(***************************************************************************)
(* foldMedian                                                              *)
(***************************************************************************)
\* values[i] with a JavaScript (0-based) index: undefined outside the array
At(values, i) == IF i \in 0..(Len(values) - 1) THEN values[i + 1] ELSE Undefined

\* values.sort((x, y) => x - y) for finite numbers: ascending and stable
RECURSIVE insertSorted(_, _)
insertSorted(sorted, x) ==
    IF sorted = <<>> THEN <<x>>
    ELSE IF Less(x, Head(sorted)) THEN <<x>> \o sorted
    ELSE <<Head(sorted)>> \o insertSorted(Tail(sorted), x)

RECURSIVE sortValues(_)
sortValues(values) ==
    IF values = <<>> THEN <<>>
    ELSE insertSorted(sortValues(SubSeq(values, 1, Len(values) - 1)), values[Len(values)])

\* medianOfSorted with the odd-count index taken one too far
medianOfSortedOffByOne(values) ==
    LET n == Len(values)
    IN  IF n % 2 = 0
        THEN HalfOf(Plus(At(values, n \div 2), At(values, (n \div 2) - 1)))
        ELSE At(values, (n + 1) \div 2)

\* (n % 2 == 0) ? 0.5 * (values[n / 2] + values[(n / 2) - 1]) : values[(n - 1) / 2]
medianOfSorted(values) ==
    LET n == Len(values)
    IN  IF n % 2 = 0
        THEN HalfOf(Plus(At(values, n \div 2), At(values, (n \div 2) - 1)))
        ELSE At(values, (n - 1) \div 2)

getMedianOfValues(m, id) ==
    IF ~IsArray(m.elems[id].value) THEN m.elems[id].value
    ELSE medianOfSorted(sortValues(getFlatValues(m, id)))

foldMedianApply(m, el) ==
    [m |-> PipelineElement(m, getMedianOfValues(m, el)), ret |-> Len(m.elems) + 1]

(***************************************************************************)
(* stdoutProcessor                                                         *)
(***************************************************************************)
\* substrings.join(', ')
RECURSIVE join(_)
join(substrings) ==
    IF substrings = <<>> THEN ""
    ELSE IF Len(substrings) = 1 THEN substrings[1]
    ELSE substrings[1] \o ", " \o join(Tail(substrings))

RECURSIVE getValueAsString(_, _), pushSubstrings(_, _, _)
getValueAsString(m, id) ==
    IF ~IsArray(m.elems[id].value) THEN NumberToString(m.elems[id].value)
    ELSE "[" \o join(pushSubstrings(m, ItemsOf(m, id), <<>>)) \o "]"

pushSubstrings(m, items, substrings) ==
    IF items = <<>> THEN substrings
    ELSE pushSubstrings(m, Tail(items), Append(substrings, getValueAsString(m, Head(items))))

stdoutProcessorApply(m, el) ==
    [m |-> consoleLog(m, getValueAsString(m, el)), ret |-> el]

(***************************************************************************)
(* Block lists.  A block is described by its constructor call; building a  *)
(* list evaluates every fixedEventWindow(size) call once, which creates    *)
(* that instance's own empty eventBuffer.                                  *)
(***************************************************************************)
Filter(predicate, arrayLogicalBehavior) ==
    [kind |-> "filter", predicate |-> predicate,
     arrayLogicalBehavior |-> arrayLogicalBehavior]
FixedEventWindow(size) == [kind |-> "fixedEventWindow", size |-> size]
FoldSum == [kind |-> "foldSum"]
FoldMedian == [kind |-> "foldMedian"]
StdoutProcessor == [kind |-> "stdoutProcessor"]

\* let functions = [ filter((i) => i > 0), fixedEventWindow(2), foldSum(), ... ]
DefaultFunctions ==
    << Filter("positive", "AND"), FixedEventWindow(2), FoldSum,
       FixedEventWindow(3), FoldMedian, StdoutProcessor >>

IsWindow(block) == block.kind = "fixedEventWindow"

WindowsOf(fs) == {i \in 1..Len(fs) : IsWindow(fs[i])}

\* BuildBuffers with one eventBuffer shared by every window of the list
BuildBuffersShared(fs) ==
    [i \in 1..Len(fs) |-> IF IsWindow(fs[i]) THEN 1 ELSE 0]

\* the arrays and closure variables that exist once the list fs is built
BuildBuffers(fs) ==
    [i \in 1..Len(fs) |->
        IF IsWindow(fs[i]) THEN Cardinality({j \in WindowsOf(fs) : j <= i}) ELSE 0]

BuildArrays(fs) == [a \in 1..Cardinality(WindowsOf(fs)) |-> <<>>]

(***************************************************************************)
(* runBuildingBlocks.  `faults` is the set of positions whose block raises *)
(* when invoked in this run (an Error thrown before the block does         *)
(* anything); every other block runs its code.  A run state r holds the    *)
(* machine r.m, the callback's captured variable r.element and r.calls,    *)
(* the record of the invocations made.                                     *)
(***************************************************************************)
FailureMessage == "block failed"

\* block(element)
callBlock(m, fs, i, el, faults) ==
    IF i \in faults THEN [m |-> m, ret |-> Null, threw |-> TRUE]
    ELSE LET res ==
                 CASE fs[i].kind = "filter" -> filterApply(m, fs[i], el)
                   [] fs[i].kind = "fixedEventWindow" ->
                          fixedEventWindowApply(m, i, fs[i].size, el)
                   [] fs[i].kind = "foldSum" -> foldSumApply(m, el)
                   [] fs[i].kind = "foldMedian" -> foldMedianApply(m, el)
                   [] fs[i].kind = "stdoutProcessor" -> stdoutProcessorApply(m, el)
         IN  [m |-> res.m, ret |-> res.ret, threw |-> FALSE]

\* forEachCallback with a swallow treated like a failure: the run goes on with
\* the container it had
forEachCallbackPastSwallow(r, fs, i, faults) ==
    IF r.element = Null THEN r
    ELSE LET c == callBlock(r.m, fs, i, r.element, faults)
             call == [block |-> i, arg |-> r.element, ret |-> c.ret, threw |-> c.threw]
         IN  IF c.threw
             THEN [m |-> consoleLog(c.m, FailureMessage),
                   element |-> r.element,
                   calls |-> Append(r.calls, call)]
             ELSE [m |-> c.m,
                   element |-> IF c.ret = Null THEN r.element ELSE c.ret,
                   calls |-> Append(r.calls, call)]

\* forEachCallback with a failure treated like a swallow: the catch clause
\* leaves the run without a container
forEachCallbackFailureSwallows(r, fs, i, faults) ==
    IF r.element = Null THEN r
    ELSE LET c == callBlock(r.m, fs, i, r.element, faults)
             call == [block |-> i, arg |-> r.element, ret |-> c.ret, threw |-> c.threw]
         IN  IF c.threw
             THEN [m |-> consoleLog(c.m, FailureMessage),
                   element |-> Null,
                   calls |-> Append(r.calls, call)]
             ELSE [m |-> c.m, element |-> c.ret, calls |-> Append(r.calls, call)]

\* forEachCallback with one retry: a block that raised is invoked again
forEachCallbackRetry(r, fs, i, faults) ==
    IF r.element = Null THEN r
    ELSE LET c == callBlock(r.m, fs, i, r.element, faults)
             call == [block |-> i, arg |-> r.element, ret |-> c.ret, threw |-> c.threw]
         IN  IF c.threw
             THEN [m |-> consoleLog(c.m, FailureMessage),
                   element |-> r.element,
                   calls |-> r.calls \o <<call, call>>]
             ELSE [m |-> c.m, element |-> c.ret, calls |-> Append(r.calls, call)]

\* the callback of functions.forEach, for the block at position i
forEachCallback(r, fs, i, faults) ==
    IF r.element = Null THEN r
    ELSE LET c == callBlock(r.m, fs, i, r.element, faults)
             call == [block |-> i, arg |-> r.element, ret |-> c.ret, threw |-> c.threw]
         IN  IF c.threw
             THEN [m |-> consoleLog(c.m, FailureMessage),
                   element |-> r.element,
                   calls |-> Append(r.calls, call)]
             ELSE [m |-> c.m, element |-> c.ret, calls |-> Append(r.calls, call)]

RECURSIVE forEach(_, _, _, _)
forEach(r, fs, i, faults) ==
    IF i > Len(fs) THEN r
    ELSE forEach(forEachCallback(r, fs, i, faults), fs, i + 1, faults)

runBuildingBlocks(m, el, fs, faults) ==
    forEach([m |-> m, element |-> el, calls |-> <<>>], fs, 1, faults)

(***************************************************************************)
(* stdinSource                                                             *)
(***************************************************************************)
\* rl.setPrompt('> '); rl.prompt();
promptUserInput(m) == [m EXCEPT !.stdout = Append(@, "> ")]

\* getValidInputNumber without the isNaN check
getValidInputNumberUnchecked(line) ==
    [threw |-> FALSE, message |-> "", value |-> Number(line)]

getValidInputNumber(line) ==
    LET parsedInput == Number(line)
    IN  IF isNaN(parsedInput)
        THEN [threw |-> TRUE, message |-> "input is not a number", value |-> NaN]
        ELSE [threw |-> FALSE, message |-> "", value |-> parsedInput]

Machine ==
    [elems |-> elems, arrs |-> arrs, eventBuffer |-> eventBuffer, stdout |-> stdout]

Threw(calls) == {j \in 1..Len(calls) : calls[j].threw}

\* the invocations of one run, entered into the history as those of event ev
Tagged(calls, ev) ==
    [j \in 1..Len(calls) |->
        [event |-> ev, block |-> calls[j].block, arg |-> calls[j].arg,
         ret |-> calls[j].ret, threw |-> calls[j].threw]]

\* the 'line' handler, for a line that getValidInputNumber rejects
lineRejected(line) ==
    /\ getValidInputNumber(line).threw
    /\ stdout' = Append(stdout, getValidInputNumber(line).message)
    /\ input' = Append(input, line)
    /\ UNCHANGED <<functions, elems, arrs, eventBuffer, element, trace, nEvents, nFaults, flat>>

\* the 'line' handler, for a line that parses: one whole run and the prompt
lineAccepted(line, faults) ==
    /\ ~getValidInputNumber(line).threw
    /\ LET m0 == PipelineElement(Machine, getValidInputNumber(line).value)
           el == Len(elems) + 1
           r == runBuildingBlocks(m0, el, functions, faults)
           m1 == promptUserInput(r.m)
       IN  /\ Threw(r.calls) = {j \in 1..Len(r.calls) : r.calls[j].block \in faults}
           /\ Cardinality(Threw(r.calls)) = Cardinality(faults)
           /\ nFaults + Cardinality(faults) <= MaxFaults
           /\ elems' = m1.elems
           /\ arrs' = m1.arrs
           /\ eventBuffer' = m1.eventBuffer
           /\ stdout' = m1.stdout
           /\ element' = el
           /\ trace' = trace \o Tagged(r.calls, nEvents + 1)
           /\ nEvents' = nEvents + 1
           /\ input' = Append(input, line)
           /\ nFaults' = nFaults + Cardinality(faults)
           /\ UNCHANGED <<functions, flat>>

(***************************************************************************)
(* The program: stdinSource(functions) with the default block list, fed    *)
(* any lines.  No block of the default list raises.                        *)
(***************************************************************************)
Lines == { <<"1">>, <<"3">>, <<"-", "1">>, <<"1", "a">> }

InitWith(fs) ==
    /\ functions = fs
    /\ elems = <<>>
    /\ arrs = BuildArrays(fs)
    /\ eventBuffer = BuildBuffers(fs)
    /\ stdout = <<"> ">>
    /\ element = Null
    /\ trace = <<>>
    /\ nEvents = 0
    /\ input = <<>>
    /\ nFaults = 0
    /\ flat = <<>>

Init == InitWith(DefaultFunctions) /\ script = <<>>

LineRejected ==
    \E line \in Lines :
        Len(input) < MaxLines /\ lineRejected(line) /\ UNCHANGED script

LineProcessed ==
    \E line \in Lines :
        Len(input) < MaxLines /\ lineAccepted(line, {}) /\ UNCHANGED script

Next == LineRejected \/ LineProcessed

Spec == Init /\ [][Next]_vars

(***************************************************************************)
(* runBuildingBlocks over other block lists, with blocks that may raise:   *)
(* the same source, a list chosen at start-up, and in every run any set of *)
(* the invoked blocks may raise.                                           *)
(***************************************************************************)
BlockLists ==
    { << Filter("positive", "AND"), FixedEventWindow(2), FoldSum, StdoutProcessor >>,
      << FixedEventWindow(1), FoldMedian, FixedEventWindow(2), StdoutProcessor >>,
      << FixedEventWindow(3), Filter("below2", "OR"), FoldMedian >> }

BlockLines == { <<"2">>, <<"-", "1">>, <<"1", "a">> }

InitBlocks == script = <<>> /\ \E fs \in BlockLists : InitWith(fs)

BlocksLineRejected ==
    \E line \in BlockLines :
        Len(input) < MaxRuns /\ lineRejected(line) /\ UNCHANGED script

BlocksLineProcessed ==
    \E line \in BlockLines :
        Len(input) < MaxRuns /\ lineAccepted(line, {}) /\ UNCHANGED script

BlocksLineProcessedWithFailure ==
    \E line \in BlockLines : \E faults \in SUBSET (1..Len(functions)) :
        /\ Len(input) < MaxRuns
        /\ faults # {}
        /\ lineAccepted(line, faults)
        /\ UNCHANGED script

NextBlocks == BlocksLineRejected \/ BlocksLineProcessed \/ BlocksLineProcessedWithFailure

SpecBlocks == InitBlocks /\ [][NextBlocks]_vars

(***************************************************************************)
(* The program fed a scripted input: the end-to-end scenario, alone or     *)
(* with one extra line (one that does not parse, or an empty one, which    *)
(* parses as 0) inserted anywhere; and a longer input of twelve positive   *)
(* numbers, alone or with one line that is not a positive number inserted  *)
(* anywhere.                                                               *)
(***************************************************************************)
ScenarioLines ==
    << <<"1">>, <<"2">>, <<"3">>, <<"-", "1">>, <<"4">>, <<"5">>, <<"6">>,
       <<"7">>, <<"8">> >>

ExtraLines == { <<"1", "a">>, <<>> }

InsertAt(s, p, x) == SubSeq(s, 1, p) \o <<x>> \o SubSeq(s, p + 1, Len(s))

LongLines ==
    << <<"3">>, <<"1">>, <<"4">>, <<"5">>, <<"1">>, <<"1">>,
       <<"2">>, <<"6">>, <<"1">>, <<"2">>, <<"3">>, <<"2">> >>

NotPositiveLines == ExtraLines \cup { <<"-", "1">> }

Scripts ==
    {ScenarioLines} \cup
    {InsertAt(ScenarioLines, p, x) : p \in 0..Len(ScenarioLines), x \in ExtraLines} \cup
    {LongLines} \cup
    {InsertAt(LongLines, p, x) : p \in 0..Len(LongLines), x \in NotPositiveLines}

InitScenario == InitWith(DefaultFunctions) /\ script \in Scripts

ScriptLineRejected ==
    /\ script # <<>>
    /\ lineRejected(Head(script))
    /\ script' = Tail(script)

ScriptLineProcessed ==
    /\ script # <<>>
    /\ lineAccepted(Head(script), {})
    /\ script' = Tail(script)

NextScenario == ScriptLineRejected \/ ScriptLineProcessed

SpecScenario == InitScenario /\ [][NextScenario]_vars

(***************************************************************************)
(* Blocks applied directly: runBuildingBlocks called on a one-block list   *)
(* with a container of any shape.  A container is drawn as a tree of at    *)
(* most MaxNodes nodes and built in the heap the way nested constructor    *)
(* calls build it (items first, then the array, then the element).         *)
(***************************************************************************)
LeafValues == {Num(0 - 1), Num(1), Num(2), Num(3)}

Leaf(v) == [isLeaf |-> TRUE, leaf |-> v, items |-> <<>>]
Batch(items) == [isLeaf |-> FALSE, leaf |-> Num(0), items |-> items]

RECURSIVE Size(_), SizeAll(_)
Size(t) == IF t.isLeaf THEN 1 ELSE 1 + SizeAll(t.items)
SizeAll(items) == IF items = <<>> THEN 0 ELSE Size(Head(items)) + SizeAll(Tail(items))

\* Trees(n): the containers of at most n nodes; Forests(n): the item lists of
\* at most n nodes in all
RECURSIVE Trees(_), Forests(_)
Trees(n) ==
    IF n = 0 THEN {}
    ELSE {Leaf(v) : v \in LeafValues} \cup {Batch(f) : f \in Forests(n - 1)}

Forests(n) ==
    {<<>>} \cup
    UNION { UNION { {<<t>> \o f : f \in Forests(n - k)} :
                    t \in {u \in Trees(k) : Size(u) = k} } : k \in 1..n }

RECURSIVE Alloc(_, _), AllocAll(_, _, _)
\* builds tree t in machine m; the root is the last element of the result
Alloc(m, t) ==
    IF t.isLeaf THEN PipelineElement(m, t.leaf)
    ELSE LET a == AllocAll(m, t.items, <<>>)
             m1 == [a.m EXCEPT !.arrs = Append(@, a.ids)]
         IN  PipelineElement(m1, ArrayRef(Len(m1.arrs)))

AllocAll(m, items, ids) ==
    IF items = <<>> THEN [m |-> m, ids |-> ids]
    ELSE LET m1 == Alloc(m, Head(items))
         IN  AllocAll(m1, Tail(items), Append(ids, Len(m1.elems)))

UnitLists ==
    { <<Filter(p, b)>> : p \in {"positive", "below2"}, b \in {"AND", "OR"} } \cup
    { <<FoldSum>>, <<FoldMedian>>, <<StdoutProcessor>>, <<FixedEventWindow(2)>>,
      <<FixedEventWindow(0)>> }

InitUnit ==
    \E t \in Trees(MaxNodes) : \E fs \in UnitLists :
        LET m == Alloc([elems |-> <<>>, arrs |-> BuildArrays(fs),
                        eventBuffer |-> BuildBuffers(fs), stdout |-> <<>>], t)
        IN  /\ functions = fs
            /\ elems = m.elems
            /\ arrs = m.arrs
            /\ eventBuffer = m.eventBuffer
            /\ stdout = m.stdout
            /\ element = Len(m.elems)
            /\ trace = <<>>
            /\ nEvents = 0
            /\ input = <<>>
            /\ nFaults = 0
            /\ script = <<>>
            /\ flat = <<>>

\* runBuildingBlocks(element, functions), called directly
UnitApply ==
    /\ nEvents < MaxApplies
    /\ LET r == runBuildingBlocks(Machine, element, functions, {})
       IN  /\ elems' = r.m.elems
           /\ arrs' = r.m.arrs
           /\ eventBuffer' = r.m.eventBuffer
           /\ stdout' = r.m.stdout
           /\ trace' = trace \o Tagged(r.calls, nEvents + 1)
           /\ nEvents' = nEvents + 1
           /\ UNCHANGED <<functions, element, input, nFaults, script, flat>>

\* element.getFlatValues(), called directly
UnitFlatten ==
    /\ flat = <<>>
    /\ flat' = <<getFlatValues(Machine, element)>>
    /\ UNCHANGED <<functions, elems, arrs, eventBuffer, stdout, element, trace,
                   nEvents, input, nFaults, script>>

NextUnit == UnitApply \/ UnitFlatten

SpecUnit == InitUnit /\ [][NextUnit]_vars

(***************************************************************************)
(* Reading the history.  An invocation c of the trace swallowed when the   *)
(* block returned null, passed when it returned a container, and raised    *)
(* when it threw.                                                          *)
(***************************************************************************)
Swallowed(c) == ~c.threw /\ c.ret = Null
Passed(c) == ~c.threw /\ c.ret # Null
Raised(c) == c.threw

Calls == 1..Len(trace)

\* the invocations of the latest run
LastRun == {j \in Calls : trace[j].event = nEvents}

SinkPositions == {i \in 1..Len(functions) : functions[i].kind = "stdoutProcessor"}

\* the number of writes the trace accounts for: one per sink invocation that
\* returned and one per reported failure
TracedWrites ==
    Cardinality({j \in Calls : Raised(trace[j])}) +
    Cardinality({j \in Calls : trace[j].block \in SinkPositions /\ Passed(trace[j])})

\* the writes of the source: the first prompt, one prompt per run and one
\* message per rejected line
SourceWrites == 1 + nEvents + (Len(input) - nEvents)

(***************************************************************************)
(* C1.  Once a block returns swallow (null), no later block of the list is *)
(* invoked for that event; in particular a sink placed later writes        *)
(* nothing for it: every write to stdout is the source's, a reported       *)
(* failure, or that of a sink invocation recorded in the history.          *)
(***************************************************************************)
C1_SwallowStopsRun ==
    /\ \A j \in Calls : \A k \in Calls :
           (Swallowed(trace[j]) /\ trace[k].event = trace[j].event) => k <= j
    /\ Len(stdout) = SourceWrites + TracedWrites

\* a run swallowed by a block that has the sink after it
C1_Witness ==
    \E j \in Calls :
        /\ Swallowed(trace[j])
        /\ \E i \in SinkPositions : i > trace[j].block
        /\ \E k \in Calls : k < j /\ trace[k].event = trace[j].event

(***************************************************************************)
(* C2.  A block that raises neither aborts nor swallows the run: the next  *)
(* block of the list is invoked with the very container the failing block  *)
(* was given.  In the latest run every block is given the return value of  *)
(* the nearest earlier block that returned normally, or the source Scalar  *)
(* when there is none.                                                     *)
(***************************************************************************)
EarlierReturns(j) ==
    {k \in LastRun : k < j /\ ~Raised(trace[k])}

HeldBefore(j) ==
    IF EarlierReturns(j) = {} THEN element
    ELSE trace[CHOOSE k \in EarlierReturns(j) : \A l \in EarlierReturns(j) : l <= k].ret

C2_FailureKeepsContainer ==
    /\ \A j \in Calls :
           (Raised(trace[j]) /\ trace[j].block < Len(functions)) =>
               /\ j + 1 \in Calls
               /\ trace[j + 1].event = trace[j].event
               /\ trace[j + 1].block = trace[j].block + 1
               /\ trace[j + 1].arg = trace[j].arg
    /\ \A j \in LastRun : trace[j].arg = HeldBefore(j)
    /\ nEvents > 0 => ~IsArray(elems[element].value)

\* a block raised after an earlier block had returned a new container, and
\* the block after it ran
C2_Witness ==
    \E j \in Calls :
        /\ Raised(trace[j])
        /\ j + 1 \in Calls
        /\ trace[j + 1].event = trace[j].event
        /\ j - 1 \in Calls
        /\ trace[j - 1].event = trace[j].event
        /\ Passed(trace[j - 1])
        /\ trace[j - 1].ret # trace[j - 1].arg

(***************************************************************************)
(* C3.  A fixedEventWindow of size n >= 1 that starts empty returns a      *)
(* Batch exactly on its calls n, 2n, 3n, ... and swallow on every other    *)
(* call.  The Batch of call q holds the containers of calls q-n+1 .. q in  *)
(* that order (and still does in every later state), the containers fed    *)
(* are distinct, so each Batch has n items and no container belongs to two *)
(* emissions.                                                              *)
(***************************************************************************)
\* the calls of the block at position w that ran its code, oldest first
WindowCalls(w) == SelectSeq(trace, LAMBDA c : c.block = w /\ ~c.threw)

SizedWindows == {w \in WindowsOf(functions) : functions[w].size >= 1}

C3_TumblingWindow ==
    \A w \in SizedWindows :
        LET n == functions[w].size
            F == WindowCalls(w)
        IN  /\ \A q \in 1..Len(F) :
                   /\ (F[q].ret # Null) <=> (q % n = 0)
                   /\ F[q].ret # Null =>
                          /\ IsArray(elems[F[q].ret].value)
                          /\ ItemsOf(Machine, F[q].ret) =
                                 [p \in 1..n |-> F[q - n + p].arg]
            /\ \A p \in 1..Len(F) : \A q \in 1..Len(F) :
                   p # q => F[p].arg # F[q].arg
            /\ \A p \in 1..Len(F) : \A q \in 1..Len(F) :
                   (p # q /\ F[p].ret # Null /\ F[q].ret # Null) =>
                       {ItemsOf(Machine, F[p].ret)[x] : x \in 1..n} \cap
                       {ItemsOf(Machine, F[q].ret)[x] : x \in 1..n} = {}

\* a window of size 2 or more has emitted twice, with a swallow in between
C3_Witness ==
    \E w \in SizedWindows :
        /\ functions[w].size >= 2
        /\ Len(WindowCalls(w)) >= 2 * functions[w].size
        /\ WindowCalls(w)[2 * functions[w].size].ret # Null

(***************************************************************************)
(* C4.  The default pipeline from fresh state.  As first stated: once the  *)
(* lines 1, 2, 3, -1, 4, 5, 6 are read, foldSum has produced exactly the   *)
(* sums 3 and 7, the size-3 window is not full and the sink has written    *)
(* nothing; once 7 and 8 are read as well, the sums that entered the       *)
(* size-3 window are 3, 7, 15 and the sink writes the median 7 as "7".     *)
(***************************************************************************)
\* the values the block at position i returned, oldest first
ReturnedValues(i) ==
    LET passed == SelectSeq(trace, LAMBDA c : c.block = i /\ Passed(c))
    IN  [q \in 1..Len(passed) |-> elems[passed[q].ret].value]

\* what was written to stdout apart from the prompts
NonPromptWrites == SelectSeq(stdout, LAMBDA text : text # "> ")

\* the values of the containers in the buffer of the window at position w
BufferValues(w) ==
    [q \in 1..Len(arrs[eventBuffer[w]]) |-> elems[arrs[eventBuffer[w]][q]].value]

C4_Original ==
    /\ input = SubSeq(ScenarioLines, 1, 7) =>
           /\ ReturnedValues(3) = <<Num(3), Num(7)>>
           /\ Len(arrs[eventBuffer[4]]) < 3
           /\ NonPromptWrites = <<>>
    /\ input = ScenarioLines =>
           /\ BufferValues(4) = <<Num(3), Num(7), Num(15)>>
           /\ NonPromptWrites = <<"7">>

(***************************************************************************)
(* C4, amended.  Once the lines 1, 2, 3, -1, 4, 5, 6 are read, the six     *)
(* positive events have produced the three sums 3, 7, 11 (5 and 6 make the *)
(* third pair), the size-3 window is full with them and the sink has       *)
(* written their median 7 as the text "7", during the event 6.  Once 7     *)
(* and 8 are read as well, a fourth sum 15 has been produced, it is alone  *)
(* in the size-3 window, and the sink has written nothing more.            *)
(***************************************************************************)
\* the lines read, leaving out the inserted ones (a line that does not parse
\* and an empty line, which the filter drops as 0)
ScenarioRead == SelectSeq(input, LAMBDA line : line \notin ExtraLines)

\* what the sink wrote: stdout without the prompts and the source's messages
SinkWrites ==
    SelectSeq(stdout, LAMBDA text : text \notin {"> ", "input is not a number"})

C4_EndToEnd ==
    /\ ScenarioRead = SubSeq(ScenarioLines, 1, 6) =>
           /\ ReturnedValues(3) = <<Num(3), Num(7)>>
           /\ BufferValues(4) = <<Num(3), Num(7)>>
           /\ SinkWrites = <<>>
    /\ ScenarioRead = SubSeq(ScenarioLines, 1, 7) =>
           /\ ReturnedValues(3) = <<Num(3), Num(7), Num(11)>>
           /\ BufferValues(4) = <<Num(3), Num(7), Num(11)>>
           /\ ReturnedValues(4) = <<ArrayRef(eventBuffer[4])>>
           /\ ReturnedValues(5) = <<Num(7)>>
           /\ SinkWrites = <<"7">>
    /\ input = SubSeq(ScenarioLines, 1, 7) => stdout[Len(stdout) - 1] = "7"
    /\ ScenarioRead = ScenarioLines =>
           /\ ReturnedValues(3) = <<Num(3), Num(7), Num(11), Num(15)>>
           /\ BufferValues(4) = <<Num(15)>>
           /\ ReturnedValues(5) = <<Num(7)>>
           /\ SinkWrites = <<"7">>

\* the whole scenario has been read and the sink has run
C4_Witness ==
    /\ input = ScenarioLines
    /\ \E j \in Calls : trace[j].block = 6 /\ Passed(trace[j])

(***************************************************************************)
(* C5.  When a block swallows an event, that event leaves the buffer of    *)
(* every window placed later in the list as it was (the same array with    *)
(* the same items), and every run, whatever the outcome of the run before  *)
(* it, starts at the first block with the new source element.  So an event *)
(* the filter rejects changes no window buffer behind the filter.          *)
(***************************************************************************)
NewCalls == (Len(trace) + 1)..Len(trace')

C5_Step ==
    /\ \A j \in NewCalls :
           Swallowed(trace'[j]) =>
               \A w \in WindowsOf(functions) :
                   w > trace'[j].block =>
                       /\ eventBuffer'[w] = eventBuffer[w]
                       /\ arrs'[eventBuffer[w]] = arrs[eventBuffer[w]]
    /\ nEvents' = nEvents + 1 =>
           /\ NewCalls # {}
           /\ trace'[Len(trace) + 1].block = 1
           /\ trace'[Len(trace) + 1].arg = element'
           /\ trace'[Len(trace) + 1].event = nEvents'
           /\ element' = Len(elems) + 1

C5_SwallowLeavesLaterWindows == [][C5_Step]_vars

\* the latest run was swallowed in front of a window that holds a container,
\* and the run before it was swallowed too
C5_Witness ==
    /\ \E j \in LastRun :
           /\ Swallowed(trace[j])
           /\ \E w \in WindowsOf(functions) :
                  w > trace[j].block /\ Len(arrs[eventBuffer[w]]) >= 1
    /\ \E k \in Calls : trace[k].event = nEvents - 1 /\ Swallowed(trace[k])
    /\ \E l \in LastRun : trace[l].block = 1

(***************************************************************************)
(* C6.  A line that Number() cannot read as a number is rejected at the    *)
(* source: the message is written, no element is created, no block is      *)
(* invoked and every window buffer stays as it was.  Every line that does  *)
(* parse, also one that follows rejected lines, starts a run: a new Scalar *)
(* with the parsed value is handed to the first block.                     *)
(***************************************************************************)
C6_Step ==
    Len(input') = Len(input) + 1 =>
        LET line == input'[Len(input')]
        IN  IF isNaN(Number(line))
            THEN /\ stdout' = Append(stdout, "input is not a number")
                 /\ UNCHANGED <<elems, arrs, eventBuffer, trace, nEvents, element>>
            ELSE /\ nEvents' = nEvents + 1
                 /\ Len(elems') > Len(elems)
                 /\ element' = Len(elems) + 1
                 /\ elems'[element'].value = Number(line)
                 /\ Len(trace') > Len(trace)
                 /\ trace'[Len(trace) + 1].block = 1
                 /\ trace'[Len(trace) + 1].arg = element'

C6_MalformedLineRejected == [][C6_Step]_vars

\* a line was rejected while the first window held one container, and the
\* line after it was run and completed that window
C6_Witness ==
    /\ Len(input) >= 3
    /\ isNaN(Number(input[Len(input) - 1]))
    /\ ~isNaN(Number(input[Len(input)]))
    /\ \E j \in LastRun : trace[j].block = 2 /\ Passed(trace[j])

(***************************************************************************)
(* C7.  For every well-formed container (a Scalar, a Batch, empty or not,  *)
(* nested to any depth) foldSum and foldMedian succeed and return a Scalar *)
(* that holds a number: the invocation returns, its result is no Batch     *)
(* and its value is a number other than NaN.                               *)
(***************************************************************************)
FoldPositions ==
    {i \in 1..Len(functions) : functions[i].kind \in {"foldSum", "foldMedian"}}

C7_FoldsReturnNumber ==
    \A j \in Calls :
        trace[j].block \in FoldPositions =>
            /\ Passed(trace[j])
            /\ ~IsArray(elems[trace[j].ret].value)
            /\ IsFinite(elems[trace[j].ret].value)

(***************************************************************************)
(* C8.  Containers are never changed once constructed: no step changes the *)
(* value of an existing element, nor the items or their order in an array  *)
(* an existing element refers to.  As first stated, with the reason given  *)
(* for it: a Batch that a window emits holds a copy of the buffer, that    *)
(* is, no element refers to the array a window uses as its eventBuffer.    *)
(***************************************************************************)
C8_ExistingUnchanged ==
    \A id \in 1..Len(elems) :
        /\ id \in 1..Len(elems')
        /\ elems'[id] = elems[id]
        /\ IsArray(elems[id].value) =>
               arrs'[elems[id].value.a] = arrs[elems[id].value.a]

C8_BatchIsCopy ==
    \A id \in 1..Len(elems) : \A w \in WindowsOf(functions) :
        elems[id].value # ArrayRef(eventBuffer[w])

C8_Original == [][C8_ExistingUnchanged]_vars /\ []C8_BatchIsCopy

(***************************************************************************)
(* C8, amended.  Containers are never changed once constructed, as above.  *)
(* A Batch that a window emits refers to the eventBuffer array itself, no  *)
(* copy is made; it stays as emitted because the next call of that window  *)
(* finds the buffer full and replaces it by a new empty array before       *)
(* appending.  foldMedian sorts the fresh array getFlatValues returns, so  *)
(* its input is unchanged like every other container.                      *)
(***************************************************************************)
C8_Step ==
    /\ C8_ExistingUnchanged
    /\ \A j \in NewCalls :
           (IsWindow(functions[trace'[j].block]) /\ ~Raised(trace'[j])) =>
               LET w == trace'[j].block
               IN  /\ Passed(trace'[j]) =>
                          elems'[trace'[j].ret].value = ArrayRef(eventBuffer'[w])
                   /\ Len(arrs[eventBuffer[w]]) = functions[w].size =>
                          /\ eventBuffer'[w] > Len(arrs)
                          /\ arrs'[eventBuffer[w]] = arrs[eventBuffer[w]]

C8_ContainersImmutable == [][C8_Step]_vars

\* a window was called again after it had emitted, and foldMedian has been
\* given a Batch whose values were not in ascending order
C8_Witness ==
    /\ \E w \in SizedWindows :
           \E q \in 1..Len(WindowCalls(w)) :
               q < Len(WindowCalls(w)) /\ WindowCalls(w)[q].ret # Null
    /\ \E j \in Calls :
           /\ functions[trace[j].block].kind = "foldMedian"
           /\ Passed(trace[j])
           /\ getFlatValues(Machine, trace[j].arg) #
                  sortValues(getFlatValues(Machine, trace[j].arg))

(***************************************************************************)
(* C9.  A window of size n >= 1 always holds between 0 and n containers    *)
(* and holds none before its first call.  After a call it is ready (n      *)
(* containers) exactly if the call returned a Batch and accumulating       *)
(* (fewer than n) exactly if the call swallowed.  A call made in state     *)
(* ready leaves only the new container in the buffer; a call made in state *)
(* accumulating appends it; a step that does not call the window leaves    *)
(* its buffer alone.                                                       *)
(***************************************************************************)
BufferOf(w) == arrs[eventBuffer[w]]

C9_Bounded ==
    \A w \in SizedWindows :
        /\ Len(BufferOf(w)) \in 0..functions[w].size
        /\ WindowCalls(w) = <<>> => BufferOf(w) = <<>>

C9_Step ==
    \A w \in SizedWindows :
        LET n == functions[w].size
            before == arrs[eventBuffer[w]]
            after == arrs'[eventBuffer'[w]]
            called == {j \in NewCalls : trace'[j].block = w /\ ~Raised(trace'[j])}
        IN  IF called = {}
            THEN after = before /\ eventBuffer'[w] = eventBuffer[w]
            ELSE \A j \in called :
                     /\ (Len(after) = n) <=> Passed(trace'[j])
                     /\ (Len(after) < n) <=> Swallowed(trace'[j])
                     /\ Len(before) = n => after = <<trace'[j].arg>>
                     /\ Len(before) < n => after = Append(before, trace'[j].arg)

C9_WindowStates == [][C9_Step]_vars /\ []C9_Bounded

\* a window of size 2 or more was called in state ready and now holds
\* just the new container
C9_Witness ==
    \E w \in SizedWindows :
        /\ functions[w].size >= 2
        /\ Len(WindowCalls(w)) = functions[w].size + 1
        /\ BufferOf(w) = <<WindowCalls(w)[functions[w].size + 1].arg>>

(***************************************************************************)
(* C10.  The filter only gates.  Applied to any container, with either     *)
(* predicate and either policy, it returns swallow or the very element it  *)
(* was given, and the call changes no element and no array: the container  *)
(* that comes out has the items it had, in the order it had them.          *)
(***************************************************************************)
C10_Step ==
    \A j \in NewCalls :
        functions[trace'[j].block].kind = "filter" =>
            /\ ~Raised(trace'[j])
            /\ trace'[j].ret \in {Null, trace'[j].arg}
            /\ elems' = elems
            /\ arrs' = arrs

C10_FilterOnlyGates == [][C10_Step]_vars

\* the filter passed a nested Batch of which some leaves satisfy the
\* predicate and some do not
C10_Witness ==
    \E j \in Calls :
        LET block == functions[trace[j].block]
            values == getFlatValues(Machine, trace[j].arg)
        IN  /\ block.kind = "filter"
            /\ Passed(trace[j])
            /\ IsArray(elems[trace[j].arg].value)
            /\ \E x \in 1..Len(values) : Holds(block.predicate, values[x])
            /\ \E x \in 1..Len(values) : ~Holds(block.predicate, values[x])
            /\ \E x \in 1..Len(ItemsOf(Machine, trace[j].arg)) :
                   IsArray(elems[ItemsOf(Machine, trace[j].arg)[x]].value)

(***************************************************************************)
(* C11.  Under the policy AND the filter passes a container exactly if     *)
(* every Scalar leaf, at any depth, satisfies the predicate, so a Batch    *)
(* without leaves passes; under OR it passes exactly if some leaf          *)
(* satisfies it, so a Batch without leaves is swallowed.  With the         *)
(* predicate v > 0, Batch([1, -1]) is swallowed under AND and passed under *)
(* OR.                                                                     *)
(***************************************************************************)
\* the numbers getFlatValues finds in the argument of invocation c
LeavesOfArg(c) == getFlatValues(Machine, c.arg)

\* the argument of invocation c is a Batch of exactly the Scalars vs
IsBatchOfScalars(c, vs) ==
    /\ IsArray(elems[c.arg].value)
    /\ Len(ItemsOf(Machine, c.arg)) = Len(vs)
    /\ \A x \in 1..Len(vs) : elems[ItemsOf(Machine, c.arg)[x]].value = vs[x]

C11_FilterPolicies ==
    \A j \in Calls :
        LET block == functions[trace[j].block]
            leaves == LeavesOfArg(trace[j])
        IN  block.kind = "filter" =>
                /\ ~Raised(trace[j])
                /\ block.arrayLogicalBehavior = "AND" =>
                       (Passed(trace[j]) <=>
                            \A x \in 1..Len(leaves) : Holds(block.predicate, leaves[x]))
                /\ block.arrayLogicalBehavior = "OR" =>
                       (Passed(trace[j]) <=>
                            \E x \in 1..Len(leaves) : Holds(block.predicate, leaves[x]))
                /\ (block.predicate = "positive"
                      /\ IsBatchOfScalars(trace[j], <<Num(1), Num(0 - 1)>>)) =>
                       (Passed(trace[j]) <=> block.arrayLogicalBehavior = "OR")

\* filter(v > 0, OR) was applied to Batch([1, -1])
C11_Witness ==
    \E j \in Calls :
        /\ functions[trace[j].block] = Filter("positive", "OR")
        /\ IsBatchOfScalars(trace[j], <<Num(1), Num(0 - 1)>>)
        /\ Passed(trace[j])

(***************************************************************************)
(* C12.  Every fixedEventWindow instance owns its buffer.  No two window   *)
(* instances of the list ever refer to the same array, a step in which a   *)
(* window is not called leaves its buffer as it was whatever the other     *)
(* windows do, and a window that is called ends with its own former        *)
(* contents plus the container it was given (or with that container alone  *)
(* after a reset): never with anything another window was given.  This     *)
(* holds for the size-2 and size-3 windows of the default list.            *)
(***************************************************************************)
C12_OwnArrays ==
    \A v \in WindowsOf(functions) : \A w \in WindowsOf(functions) :
        v # w => eventBuffer[v] # eventBuffer[w]

C12_Step ==
    /\ C12_OwnArrays'
    /\ \A w \in WindowsOf(functions) :
           LET before == arrs[eventBuffer[w]]
               after == arrs'[eventBuffer'[w]]
               called == {j \in NewCalls : trace'[j].block = w /\ ~Raised(trace'[j])}
           IN  IF called = {}
               THEN /\ eventBuffer'[w] = eventBuffer[w]
                    /\ after = before
               ELSE \A j \in called :
                        after \in {Append(before, trace'[j].arg), <<trace'[j].arg>>}

C12_WindowsIndependent == [][C12_Step]_vars

\* the size-2 window was called, and took its first container, while the
\* size-3 window held a container
C12_Witness ==
    /\ functions = DefaultFunctions
    /\ \E j \in LastRun : trace[j].block = 2 /\ Swallowed(trace[j])
    /\ Len(arrs[eventBuffer[4]]) >= 1
    /\ Len(arrs[eventBuffer[2]]) = 1

(***************************************************************************)
(* C13.  Within one run the blocks are invoked in list order and each at   *)
(* most once: of two invocations of the same event the later one is of a   *)
(* later block.  So a block that raised is not invoked again for that      *)
(* event, and each raise is reported once.                                 *)
(***************************************************************************)
C13_OncePerRunInOrder ==
    /\ \A j \in Calls : \A k \in Calls :
           (j < k /\ trace[j].event = trace[k].event) =>
               trace[j].block < trace[k].block
    /\ \A j \in Calls : \A k \in Calls :
           j < k => trace[j].event <= trace[k].event
    /\ Cardinality({x \in 1..Len(stdout) : stdout[x] = FailureMessage}) = nFaults
    /\ Cardinality({j \in Calls : Raised(trace[j])}) = nFaults

\* a run in which a block raised and the blocks after it were invoked
C13_Witness ==
    \E j \in Calls :
        /\ Raised(trace[j])
        /\ trace[j].block = 1
        /\ \E k \in Calls :
               /\ trace[k].event = trace[j].event
               /\ trace[k].block = Len(functions)

(***************************************************************************)
(* C14.  Every run of an accepted event ends in one of three ways: every   *)
(* block was invoked and returned, or a block swallowed the event, or one  *)
(* or more blocks raised and the run still went on to the end of the list  *)
(* (or to a swallow).  No run stops at a block that raised.  After each of *)
(* these the prompt is written again and the handler accepts the next line *)
(* (here, as long as the model reads lines at all).                        *)
(***************************************************************************)
RunOf(ev) == {j \in Calls : trace[j].event = ev}

LastOf(ev) == CHOOSE j \in RunOf(ev) : \A k \in RunOf(ev) : k <= j

Completed(ev) ==
    /\ \A j \in RunOf(ev) : Passed(trace[j])
    /\ {trace[j].block : j \in RunOf(ev)} = 1..Len(functions)

SwallowedRun(ev) ==
    /\ Swallowed(trace[LastOf(ev)])
    /\ {trace[j].block : j \in RunOf(ev)} = 1..trace[LastOf(ev)].block

AbsorbedFailure(ev) ==
    /\ \E j \in RunOf(ev) : Raised(trace[j])
    /\ \A j \in RunOf(ev) : ~Swallowed(trace[j])
    /\ {trace[j].block : j \in RunOf(ev)} = 1..Len(functions)

C14_Outcomes ==
    \A ev \in 1..nEvents :
        /\ RunOf(ev) # {}
        /\ Completed(ev) \/ SwallowedRun(ev) \/ AbsorbedFailure(ev)

C14_Step ==
    (/\ Len(input') = Len(input) + 1
     /\ ~getValidInputNumber(input'[Len(input')]).threw) =>
        /\ nEvents' = nEvents + 1
        /\ Len(trace') > Len(trace)
        /\ trace'[Len(trace')].event = nEvents'
        /\ stdout'[Len(stdout')] = "> "

C14_RunsEndAndPipelineLives == [][C14_Step]_vars /\ []C14_Outcomes

\* a completed run, a swallowed run and a run that absorbed a failure have
\* all happened, and another event was run after the failure
C14_Witness ==
    /\ \E ev \in 1..nEvents : Completed(ev)
    /\ \E ev \in 1..nEvents : SwallowedRun(ev)
    /\ \E ev \in 1..nEvents : AbsorbedFailure(ev) /\ ev < nEvents

(***************************************************************************)
(* The Scalar leaves of a container, read off the heap without the code's  *)
(* flatten: a leaf is reached by a path of item indices, and leaves are    *)
(* ordered left to right when their paths are ordered lexicographically.   *)
(***************************************************************************)
RECURSIVE PathsFrom(_)
PathsFrom(id) ==
    IF ~IsArray(elems[id].value) THEN {<<>>}
    ELSE LET items == ItemsOf(Machine, id)
         IN  UNION { {<<i>> \o p : p \in PathsFrom(items[i])} : i \in 1..Len(items) }

RECURSIVE ValueAt(_, _)
ValueAt(id, p) ==
    IF p = <<>> THEN elems[id].value
    ELSE ValueAt(ItemsOf(Machine, id)[Head(p)], Tail(p))

PathBefore(p, q) ==
    \E i \in 1..Len(p) :
        /\ i <= Len(q)
        /\ p[i] < q[i]
        /\ \A j \in 1..(i - 1) : p[j] = q[j]

LeavesLeftToRight(id) ==
    LET P == PathsFrom(id)
    IN  [k \in 1..Cardinality(P) |->
            ValueAt(id, CHOOSE p \in P :
                            Cardinality({q \in P : PathBefore(q, p)}) = k - 1)]

RECURSIVE SumOf(_)
SumOf(values) ==
    IF values = <<>> THEN Num(0) ELSE Plus(Head(values), SumOf(Tail(values)))

KindCalls(kind) == {j \in Calls : functions[trace[j].block].kind = kind}

IsScalar(id, v) == elems[id].value = v

\* Batch([Scalar(1), Batch([Scalar(2), Scalar(3)])])
IsNestedExample(id) ==
    /\ IsArray(elems[id].value)
    /\ Len(ItemsOf(Machine, id)) = 2
    /\ IsScalar(ItemsOf(Machine, id)[1], Num(1))
    /\ LET inner == ItemsOf(Machine, id)[2]
       IN  /\ IsArray(elems[inner].value)
           /\ Len(ItemsOf(Machine, inner)) = 2
           /\ IsScalar(ItemsOf(Machine, inner)[1], Num(2))
           /\ IsScalar(ItemsOf(Machine, inner)[2], Num(3))

(***************************************************************************)
(* C15.  foldSum applied to any container returns a new Scalar whose value *)
(* is the sum of all Scalar leaves of the container at every depth, which  *)
(* is also the sum of its flatten; for a Scalar the result has the         *)
(* scalar's value, and Batch([1, Batch([2, 3])]) gives 6.                  *)
(***************************************************************************)
C15_SumOfAllLeaves ==
    \A j \in KindCalls("foldSum") :
        /\ Passed(trace[j])
        /\ ~IsArray(elems[trace[j].ret].value)
        /\ elems[trace[j].ret].value = SumOf(LeavesLeftToRight(trace[j].arg))
        /\ elems[trace[j].ret].value = SumOf(getFlatValues(Machine, trace[j].arg))
        /\ ~IsArray(elems[trace[j].arg].value) =>
               elems[trace[j].ret].value = elems[trace[j].arg].value
        /\ IsNestedExample(trace[j].arg) => elems[trace[j].ret].value = Num(6)

C15_Witness ==
    \E j \in KindCalls("foldSum") :
        /\ IsNestedExample(trace[j].arg)
        /\ IsScalar(trace[j].ret, Num(6))

(***************************************************************************)
(* The standard median, stated by ranks instead of by sorting: the k-th    *)
(* smallest of the values is a value with fewer than k values below it and *)
(* at least k values not above it.                                         *)
(***************************************************************************)
KthSmallest(values, k) ==
    CHOOSE v \in {values[i] : i \in 1..Len(values)} :
        /\ Cardinality({i \in 1..Len(values) : Less(values[i], v)}) < k
        /\ Cardinality({i \in 1..Len(values) : ~Less(v, values[i])}) >= k

IsMedianOf(x, values) ==
    /\ Len(values) > 0
    /\ IF Len(values) % 2 = 1
       THEN x = KthSmallest(values, (Len(values) + 1) \div 2)
       ELSE x = HalfOf(Plus(KthSmallest(values, Len(values) \div 2),
                            KthSmallest(values, Len(values) \div 2 + 1)))

IsNonEmptyBatch(id) ==
    IsArray(elems[id].value) /\ Len(ItemsOf(Machine, id)) > 0

MedianIsRight(c) ==
    /\ Passed(c)
    /\ ~IsArray(elems[c.ret].value)
    /\ IsMedianOf(elems[c.ret].value, LeavesLeftToRight(c.arg))
    /\ ~IsArray(elems[c.arg].value) => elems[c.ret].value = elems[c.arg].value

(***************************************************************************)
(* C16.  foldMedian applied to a Scalar or to any non-empty Batch returns  *)
(* a Scalar holding the standard median of the leaves of the container:    *)
(* the middle one of an odd count, the average of the two middle ones of   *)
(* an even count; a Scalar gives its own value.                            *)
(***************************************************************************)
C16_StandardMedian ==
    \A j \in KindCalls("foldMedian") :
        (~IsArray(elems[trace[j].arg].value) \/ IsNonEmptyBatch(trace[j].arg)) =>
            MedianIsRight(trace[j])

\* the same for the containers that have at least one Scalar leaf
C16_WithLeaves ==
    \A j \in KindCalls("foldMedian") :
        PathsFrom(trace[j].arg) # {} => MedianIsRight(trace[j])

\* Batch([1, 3]) in either order gives 2, Batch([1, 2, 3]) in any order gives 2
C16_Examples ==
    \A j \in KindCalls("foldMedian") :
        LET c == trace[j]
            leaves == LeavesLeftToRight(c.arg)
            bag == {leaves[i] : i \in 1..Len(leaves)}
        IN  (/\ IsArray(elems[c.arg].value)
             /\ \/ Len(leaves) = 2 /\ bag = {Num(1), Num(3)}
                \/ Len(leaves) = 3 /\ bag = {Num(1), Num(2), Num(3)}) =>
                IsScalar(c.ret, Num(2))

(***************************************************************************)
(* C17.  getFlatValues of any container returns exactly the Scalar leaves  *)
(* of the container, each once, in left-to-right depth-first order; for a  *)
(* Scalar it returns the one value of the scalar.                          *)
(***************************************************************************)
C17_FlattenLeftToRight ==
    \A i \in 1..Len(flat) :
        /\ flat[i] = LeavesLeftToRight(element)
        /\ Len(flat[i]) = Cardinality(PathsFrom(element))
        /\ ~IsArray(elems[element].value) => flat[i] = <<elems[element].value>>

\* a nested container whose leaves differ and lie at different depths
C17_Witness ==
    /\ flat = << <<Num(1), Num(2), Num(3)>> >>
    /\ IsNestedExample(element)

(***************************************************************************)
(* C18.  In the default pipeline, started fresh and with no block raising, *)
(* the sink is invoked during an event exactly when that event is positive *)
(* and is the 6k-th positive event; what it writes then is the median of   *)
(* the three sums of the pairs made of the positive events 6k-5 .. 6k.     *)
(* Events that are not positive, and lines that are rejected, do not move  *)
(* the count.                                                              *)
(***************************************************************************)
\* the number the source made of event ev
EventValue(ev) ==
    elems[trace[CHOOSE j \in RunOf(ev) : trace[j].block = 1].arg].value

PositiveEvents == {ev \in 1..nEvents : Less(Num(0), EventValue(ev))}

\* the q-th positive event
PositiveEvent(q) ==
    CHOOSE ev \in PositiveEvents :
        Cardinality({x \in PositiveEvents : x <= ev}) = q

PairSum(q) == Plus(EventValue(PositiveEvent(q - 1)), EventValue(PositiveEvent(q)))

MedianOfSums(k) ==
    KthSmallest(<<PairSum(6 * k - 4), PairSum(6 * k - 2), PairSum(6 * k)>>, 2)

SinkEvents ==
    {ev \in 1..nEvents :
        \E j \in RunOf(ev) : trace[j].block = Len(functions) /\ Passed(trace[j])}

C18_SinkEverySixth ==
    /\ SinkEvents =
           {ev \in PositiveEvents :
                Cardinality({x \in PositiveEvents : x <= ev}) % 6 = 0}
    /\ SinkWrites =
           [k \in 1..(Cardinality(PositiveEvents) \div 6) |->
                NumberToString(MedianOfSums(k))]

\* the sink has written twice, with an event that is not positive read
\* before the second write
C18_Witness ==
    /\ Len(SinkWrites) = 2
    /\ SinkWrites[1] # SinkWrites[2]
    /\ \E ev \in 1..nEvents : ev \notin PositiveEvents

(***************************************************************************)
(* C19.  A window of size 0 is accepted as it is.  Every call of it        *)
(* swallows the event.  Its first call replaces the empty buffer by a new  *)
(* array; no later call does, so the buffer holds every element the window *)
(* was ever given and its length, one more after each call, is above the   *)
(* size from the first call on.                                            *)
(***************************************************************************)
ZeroWindows == {w \in WindowsOf(functions) : functions[w].size = 0}

C19_Grows ==
    \A w \in ZeroWindows :
        LET F == WindowCalls(w)
        IN  /\ \A q \in 1..Len(F) : Swallowed(F[q])
            /\ BufferOf(w) = [q \in 1..Len(F) |-> F[q].arg]
            /\ F # <<>> => Len(BufferOf(w)) > functions[w].size

C19_Step ==
    \A w \in ZeroWindows :
        \A j \in NewCalls :
            (trace'[j].block = w /\ WindowCalls(w) # <<>>) =>
                /\ eventBuffer'[w] = eventBuffer[w]
                /\ Len(arrs'[eventBuffer'[w]]) = Len(arrs[eventBuffer[w]]) + 1

C19_ZeroWindowNeverEmits == [][C19_Step]_vars /\ []C19_Grows

\* a window of size 0 called twice: two elements in a buffer of size 0
C19_Witness ==
    \E w \in ZeroWindows :
        /\ Len(WindowCalls(w)) >= 2
        /\ Len(BufferOf(w)) >= 2

====
